---- MODULE Spec2Model ----
(***************************************************************************)
(* MD_HX711: driver for the HX711 24 bit ADC (src/src/MD_HX711.h/.cpp).    *)
(*                                                                         *)
(* The model has three layers:                                             *)
(*   - the driver objects (the fields of class MD_HX711, the static        *)
(*     registry ISRUsed / myInstance[]),                                   *)
(*   - the platform (global interrupt flag, attachInterrupt table, one     *)
(*     foreground thread that interrupt handlers preempt and nest on),     *)
(*   - one HX711 device per driver object (DAT / CLK lines, the pulse      *)
(*     count of the running exchange, the channel selected for the next    *)
(*     conversion, power down by a long CLK high).                         *)
(* Execution is a stack of frames: the bottom frame is the foreground      *)
(* call in progress, frames above it are interrupt handlers.  Only the top *)
(* frame runs.                                                             *)
(***************************************************************************)
EXTENDS Integers, Sequences, FiniteSets, TLC

VARIABLES
  enableB,      \* _enableB     [instance -> BOOLEAN]
  mode,         \* _mode        [instance -> {GAIN_128, GAIN_64}]
  nextReadA,    \* _nextReadA   [instance -> BOOLEAN]
  readCounter,  \* _readCounter [instance -> uint32]
  chanData,     \* _chanData    [instance -> [channel -> [raw, tare, calib, range]]]
  myISRId,      \* _myISRId     [instance -> 0..3 or UINT8_MAX]
  inISR,        \* _inISR       [instance -> BOOLEAN]
  ISRUsed,      \* static allocation bit field, as the set of bits that are set
  myInstance,   \* static myInstance[MAX_INSTANCE], 0 is the null pointer
  pinDat,       \* _pinDat      [instance -> pin], fixed by the constructor
  iflag,        \* platform: global interrupt enable
  handler,      \* platform: attachInterrupt table [irq -> slot of globalISRn or NoHandler]
  clk,          \* CLK line level of each instance's device
  dev,          \* the HX711 of each instance
  stack,        \* frames: foreground call at the bottom, interrupt handlers above
  exchanges,    \* history: the exchanges each instance completed since its reset
  flags,        \* history: what happened to each instance since its last reset:
                \* allB, Channel B was enabled at every read; neverB, it was never
                \* enabled; last, the channel of the latest store to raw; full,
                \* the latest attach of the instance found every slot occupied
  lastDone,     \* history: the foreground call that returned last (again: it
                \* was an attach that followed one which found every slot occupied)
  snap          \* history: the registry as it was when the running call started

vars == <<enableB, mode, nextReadA, readCounter, chanData, myISRId, inISR,
          ISRUsed, myInstance, pinDat, iflag, handler, clk, dev, stack,
          exchanges, flags, lastDone, snap>>

(***************************************************************************)
(* Program constants                                                       *)
(***************************************************************************)
MAX_INSTANCE == 4
UINT8_MAX == 255
NOT_AN_INTERRUPT == -1
NUM_CHAN == 2
NUM_PASSES == 3
CH_A == 0
CH_B == 1
GAIN_128 == 0
GAIN_64 == 1
DATA_BITS == 24
NoHandler == -1
NullInstance == 0

Channels == {CH_A, CH_B}
Gains == {GAIN_128, GAIN_64}
Slots == 0 .. (MAX_INSTANCE - 1)

(***************************************************************************)
(* Bounds of the model                                                     *)
(***************************************************************************)
\* reads are taken while _readCounter is below this
MaxReads == 3

\* 24 bit patterns the devices present: a negative reading whose first and
\* last bits are set
Samples == {2^23 + 1}

\* arguments the application passes to setZeroTare() and setCalibration();
\* the channel is left at its default, CH_A
TareValues == {-7}
CalibValues == {1000}
RangeValues == {5}
SetterChannels == {CH_A}

\* autoZeroTare(): conversions are made while fewer than this many exchanges
\* are complete, and the devices present these patterns
TareReads == 6

TareSamples == {100, 2^24 - 201}

\* sign extension: conversions are made while fewer than this many exchanges
\* are complete, and the devices present these patterns: the smallest and the
\* largest of each sign, each single bit, each single bit missing
SignReads == 1

SignPatterns ==
  {0, 1, 2, 2^23 - 2, 2^23 - 1, 2^23, 2^23 + 1, 2^24 - 2, 2^24 - 1}
    \cup {2^k : k \in 0 .. 23} \cup {2^24 - 1 - 2^k : k \in 0 .. 23}

\* getCalibrated(): the tare and calibration values and the ranges the
\* application sets; two of them are neighbours that float cannot tell apart
CalibInputs == {0, 1000, 2^24, 2^24 + 1, -(2^28)}

RangeInputs == {0, 5}

\* pins: pin p of 1..5 supports external interrupts, pin 9 does not
IrqPins == 1 .. (MAX_INSTANCE + 1)
NoIrqPin == 9

(***************************************************************************)
(* Integer helpers: C operators on fixed width integers                    *)
(***************************************************************************)
Bit(v, k) == (v \div (2^k)) % 2

RECURSIVE BitOrN(_, _, _)
BitOrN(a, b, n) ==
  IF n = 0 THEN 0
  ELSE (IF (a % 2 = 1) \/ (b % 2 = 1) THEN 1 ELSE 0)
       + 2 * BitOrN(a \div 2, b \div 2, n - 1)

\* a | b on the low 24 bits and on the top byte of a 32 bit pattern
BitOr24(a, b) == BitOrN(a, b, 24)

BitOr8(a, b) == BitOrN(a, b, 8)

\* the int32_t whose two's complement pattern has top byte hi and low bits lo
Int32Of(hi, lo) == IF hi >= 128 THEN (hi - 256) * 2^24 + lo ELSE hi * 2^24 + lo

\* mutant: the quotient is rounded down
CDiv_Floor(a, b) == a \div b

\* a / b of C for b > 0: the quotient is truncated towards zero
CDiv(a, b) == IF a >= 0 THEN a \div b ELSE -((-a) \div b)

Abs(x) == IF x >= 0 THEN x ELSE -x

\* float(x) for an int32_t x: the nearest number with a 24 bit significand,
\* the even one of two that are equally near
FloatOf(x) ==
  LET a == Abs(x)
      u == CHOOSE w \in {2^e : e \in 0 .. 7} :
             a \div w < 2^24 /\ (w = 1 \/ a \div w >= 2^23)
      q == a \div u
      r == a % u
      m == IF 2 * r > u \/ (2 * r = u /\ q % 2 = 1) THEN (q + 1) * u ELSE q * u
  IN IF x >= 0 THEN m ELSE -m

\* float results: not-a-number, an infinity, or the quotient num / den of two
\* floats (its rounding is not modelled)
NaN == [kind |-> "nan", num |-> 0, den |-> 0]

Inf == [kind |-> "inf", num |-> 0, den |-> 0]

FloatQuot(a, b) ==
  IF b = 0 THEN (IF a = 0 THEN NaN ELSE Inf)
  ELSE [kind |-> "num", num |-> a, den |-> b]

\* byte k (0 the least significant) of the two's complement pattern of an
\* int32_t, and the int32_t made of four such bytes
ByteOf(v, k) == (v \div 2^(8 * k)) % 256

Int32OfBytes(bs) == Int32Of(bs[4], bs[1] + 256 * bs[2] + 65536 * bs[3])

(***************************************************************************)
(* Pure functions of the driver                                            *)
(***************************************************************************)
\* MD_HX711.h:413
isInterruptMode(id) == id # UINT8_MAX

\* mutant: the flag is never toggled
ToggleNextRead_Never(enB, nextA) == nextA

\* readNB: if (_enableB) _nextReadA = !_nextReadA;
ToggleNextRead(enB, nextA) == IF enB THEN ~nextA ELSE nextA

\* mutant: the Channel B branch is missing, extras keeps its initial 0
ExtraPulses_Unset(nextA, m) ==
  IF ~nextA THEN 0
  ELSE IF m = GAIN_128 THEN 1
  ELSE 3

\* readNB: the extra clock pulses to send with this read
ExtraPulses(nextA, m) ==
  IF ~nextA THEN 2
  ELSE IF m = GAIN_128 THEN 1
  ELSE 3

\* mutant: the channel is chosen without looking at _enableB
StoreChannel_IgnoreEnable(enB, nextA) == IF nextA THEN CH_B ELSE CH_A

\* readNB: channel_t ch = (_enableB && _nextReadA) ? CH_B : CH_A;
StoreChannel(enB, nextA) == IF enB /\ nextA THEN CH_B ELSE CH_A

\* mutant: the value is stored as HX711ReadData returned it
SignExtend_Missing(value) == value

\* readNB: if (value & 0x800000) value |= 0xff000000;  (value is int32_t)
SignExtend(value) ==
  IF Bit(value, 23) = 1
    THEN Int32Of(BitOr8(value \div 2^24, 255), value % 2^24)
    ELSE value

\* read(): return(_enableB && _nextReadA ? CH_B : CH_A);
ReadResult(enB, nextA) == IF enB /\ nextA THEN CH_B ELSE CH_A

\* mutant: the loop result is used without the "found one" test
FreeISRId_Unchecked(used) ==
  IF Slots \ used = {} THEN MAX_INSTANCE - 1
  ELSE CHOOSE i \in Slots \ used : \A j \in Slots \ used : i <= j

\* mutant: only the first slot is tried
FreeISRId_FirstOnly(used) == IF 0 \in used THEN UINT8_MAX ELSE 0

\* enableISR: the first i in 0..MAX_INSTANCE-1 with !(ISRUsed & _BV(i)),
\* UINT8_MAX (the value _myISRId keeps) when the loop finds none
FreeISRId(used) ==
  IF Slots \ used = {} THEN UINT8_MAX
  ELSE CHOOSE i \in Slots \ used : \A j \in Slots \ used : i <= j

\* HX711ReadData: do { ... mode--; } while (mode > 0);  mode is uint8_t
DecMode(m) == (m - 1) % 256

\* mutant: the counter is stepped twice
IncCounter_Twice(c) == c + 2

\* _readCounter++ (uint32_t: it wraps at 2^32, far above MaxReads)
IncCounter(c) == c + 1

\* mutant: the test for calib == tare is missing
getCalibrated_NoCheck(cd) ==
  FloatQuot(FloatOf(cd.range * FloatOf(FloatOf(cd.raw) - FloatOf(cd.tare))),
            FloatOf(FloatOf(cd.calib) - FloatOf(cd.tare)))

\* getCalibrated(): if (calib - tare == 0) f = NAN; else
\* f = range * (float(raw) - float(tare)) / (float(calib) - float(tare));
\* cd is _chanData[ch]
getCalibrated(cd) ==
  IF cd.calib - cd.tare = 0 THEN NaN
  ELSE FloatQuot(FloatOf(cd.range * FloatOf(FloatOf(cd.raw) - FloatOf(cd.tare))),
                 FloatOf(FloatOf(cd.calib) - FloatOf(cd.tare)))

(***************************************************************************)
(* Platform                                                                *)
(***************************************************************************)
\* digitalPinToInterrupt(): the irq of a pin, NOT_AN_INTERRUPT for a pin
\* without external interrupt
digitalPinToInterrupt(p) == IF p \in IrqPins THEN p ELSE NOT_AN_INTERRUPT

(***************************************************************************)
(* The HX711 (documented in MD_HX711.cpp, pageControl)                     *)
(*   ready  : a conversion is waiting, DAT was pulled LOW                  *)
(*   sample : the 24 bit pattern of that conversion                        *)
(*   sel    : 1, 2, 3 = the input the waiting conversion was taken from,   *)
(*            as the extra pulses count selects it; 0 = serial error       *)
(*   pulses : CLK pulses received since the conversion became ready        *)
(*   hold   : CLK is high since powerDown() without any pulse in between   *)
(*   fell   : when DAT went LOW for the waiting conversion, a handler was   *)
(*            attached to the interrupt of the pin (history)               *)
(***************************************************************************)
DevReset ==
  [ready |-> FALSE, sample |-> 0, sel |-> 1, pulses |-> 0, hold |-> FALSE, fell |-> FALSE]

\* Clock Pulses | Input Channel:  25 A(128), 26 B(32), 27 A(64)
ChannelOfSel(sel) == IF sel = 2 THEN CH_B ELSE CH_A

\* level of DAT: LOW when a conversion waits, the data bits MSB first while
\* the 24 data pulses run, HIGH afterwards and while converting
DatLevel(d) ==
  IF ~d.ready THEN 1
  ELSE IF d.pulses = 0 THEN 0
  ELSE IF d.pulses <= DATA_BITS THEN Bit(d.sample, DATA_BITS - d.pulses)
  ELSE 1

\* the driver writes CLK HIGH then LOW.  With CLK low before, the device sees
\* one positive pulse (the 25th pulls DAT back to HIGH); with CLK already
\* high (powerDown() was running) it sees no rising edge.  Either way CLK is
\* low afterwards and the long high is over.
DevPulse(d, level) ==
  IF level = 0
    THEN [d EXCEPT !.pulses = @ + 1, !.hold = FALSE,
                   !.ready = d.ready /\ d.pulses + 1 <= DATA_BITS]
    ELSE [d EXCEPT !.hold = FALSE]

\* the input the next conversion is taken from, given the pulses of the
\* exchange before it (none: the selection stays)
NextSel(d) ==
  IF d.pulses = 0 THEN d.sel
  ELSE IF d.pulses \in (DATA_BITS + 1) .. (DATA_BITS + 3) THEN d.pulses - DATA_BITS
  ELSE 0

(***************************************************************************)
(* Frames and history records                                              *)
(***************************************************************************)
\* ctx: foreground or interrupt; op: the method the application called; ret:
\* where the function running in the frame returns to; extras, value, ch: the
\* locals of readNB; hxmode, value, mask: those of HX711ReadData; gain: _mode
\* as readNB read it, sent: the CLK pulses HX711ReadData has written (history);
\* ch, access, bytes: the channel a getter was called for, the bytes one memory
\* access of the build moves, the bytes of the field loaded so far;
\* b, wasIRQ, n, k: the locals b, wasIRQ, n and i of autoZeroTare, got: the raw
\* values it has read from each channel, prev: the tare of each channel before
\* its latest update (history); again: the attach before
\* this one found every slot occupied (history)
Frame(ctx, op, i, pc) ==
  [ctx |-> ctx, op |-> op, inst |-> i, pc |-> pc, ret |-> <<>>,
   extras |-> 0, hxmode |-> 0, value |-> 0, mask |-> 0, ch |-> CH_A,
   gain |-> GAIN_128, sent |-> 0,
   access |-> 0, bytes |-> <<>>,
   b |-> FALSE, wasIRQ |-> FALSE, n |-> 0, k |-> 0, again |-> FALSE,
   got |-> [c \in Channels |-> <<>>], prev |-> [c \in Channels |-> 0]]

NoFlags == [allB |-> TRUE, neverB |-> TRUE, last |-> <<>>, full |-> FALSE]

NoneDone == [op |-> "none", inst |-> 0, result |-> 0, again |-> FALSE]

NoSnap == <<>>

ZeroChan == [raw |-> 0, tare |-> 0, calib |-> 0, range |-> 0]

Instances == DOMAIN myISRId

Top == stack[Len(stack)]

\* the registry and what an attach may touch
RegState == <<ISRUsed, myInstance, myISRId, handler, clk, inISR>>

(***************************************************************************)
(* Initial state: the objects constructed and begin() called on each       *)
(***************************************************************************)
InitFor(insts, pins) ==
  /\ enableB = [i \in insts |-> FALSE]
  /\ mode = [i \in insts |-> GAIN_128]
  /\ nextReadA = [i \in insts |-> TRUE]
  /\ readCounter = [i \in insts |-> 0]
  /\ chanData = [i \in insts |-> [ch \in Channels |-> ZeroChan]]
  /\ myISRId = [i \in insts |-> UINT8_MAX]
  /\ inISR = [i \in insts |-> FALSE]
  /\ ISRUsed = {}
  /\ myInstance = [k \in Slots |-> NullInstance]
  /\ pinDat = pins
  /\ iflag = TRUE
  /\ handler = [q \in IrqPins |-> NoHandler]
  /\ clk = [i \in insts |-> 0]
  /\ dev = [i \in insts |-> DevReset]
  /\ stack = <<>>
  /\ exchanges = [i \in insts |-> 0]
  /\ flags = [i \in insts |-> NoFlags]
  /\ lastDone = NoneDone
  /\ snap = NoSnap

(***************************************************************************)
(* Scheduling                                                              *)
(***************************************************************************)
\* attachInterrupt(irq, ISRfunc[id], LOW): the interrupt of instance j's data
\* pin is raised while a handler is attached and DAT is LOW
IrqAttached(j) ==
  LET q == digitalPinToInterrupt(pinDat[j]) IN
    /\ q # NOT_AN_INTERRUPT
    /\ handler[q] # NoHandler

IrqRaised(j) ==
  LET q == digitalPinToInterrupt(pinDat[j]) IN
    /\ q # NOT_AN_INTERRUPT
    /\ handler[q] # NoHandler
    /\ DatLevel(dev[j]) = 0

IrqPending == iflag /\ \E j \in Instances : IrqRaised(j)

\* the top frame is at pc and no interrupt is taken first
Run(pc) == stack # <<>> /\ Top.pc = pc /\ ~IrqPending

Goto(pc) == stack' = [stack EXCEPT ![Len(stack)].pc = pc]

Pop == SubSeq(stack, 1, Len(stack) - 1)

ReadNBPcs == {"nb1", "nb2", "nb3", "nb4", "hx1", "hx2", "nb5", "nb6", "nb7", "nb8"}

\* some frame of instance i is inside readNB
InReadNB(i) == \E n \in 1 .. Len(stack) : stack[n].inst = i /\ stack[n].pc \in ReadNBPcs

\* the function running in frame f returns: to its caller in the same frame,
\* from the interrupt (RETI sets the interrupt flag), or to the application
Finish(f, result) ==
  IF f.ret # <<>> THEN
    /\ stack' = [stack EXCEPT ![Len(stack)] = [f EXCEPT !.pc = Head(f.ret), !.ret = Tail(f.ret)]]
    /\ UNCHANGED <<iflag, lastDone>>
  ELSE IF f.ctx = "isr" THEN
    /\ stack' = Pop
    /\ iflag' = TRUE
    /\ UNCHANGED lastDone
  ELSE
    /\ stack' = Pop
    /\ lastDone' = [op |-> f.op, inst |-> f.inst, result |-> result, again |-> f.again]
    /\ UNCHANGED iflag

\* the application calls a method: only when no call is running
Call(f, s) ==
  /\ stack = <<>>
  /\ ~IrqPending
  /\ stack' = <<f>>
  /\ lastDone' = NoneDone
  /\ snap' = s

(***************************************************************************)
(* The devices                                                             *)
(***************************************************************************)
\* A conversion completes and DAT goes LOW.  The HX711 converts at 10 or 80
\* samples per second, a read takes well under a millisecond: no conversion
\* completes while a read of the same device is running.  The pulses of the
\* exchange before select the input this conversion was taken from.
Convert(i, samples) ==
  /\ ~dev[i].ready
  /\ NextSel(dev[i]) # 0
  /\ \E s \in samples :
       dev' = [dev EXCEPT ![i] = [ready |-> TRUE, sample |-> s, sel |-> NextSel(dev[i]),
                                  pulses |-> 0, hold |-> dev[i].hold,
                                  fell |-> IrqAttached(i)]]
  /\ UNCHANGED <<enableB, mode, nextReadA, readCounter, chanData, myISRId, inISR,
                 ISRUsed, myInstance, pinDat, iflag, handler, clk, stack,
                 exchanges, flags, lastDone, snap>>

DeviceReady(i) ==
  /\ ~InReadNB(i)
  /\ readCounter[i] < MaxReads
  /\ Convert(i, Samples)

\* globalISRn: the interrupt of instance j's data pin is taken, the handler
\* attached to it runs readNB() of the instance its table entry names
Interrupt(j) ==
  /\ iflag
  /\ IrqRaised(j)
  /\ LET k == handler[digitalPinToInterrupt(pinDat[j])] IN
       /\ myInstance[k] # NullInstance
       /\ stack' = Append(stack, Frame("isr", "isr", myInstance[k], "nb1"))
  /\ iflag' = FALSE
  /\ UNCHANGED <<enableB, mode, nextReadA, readCounter, chanData, myISRId, inISR,
                 ISRUsed, myInstance, pinDat, handler, clk, dev,
                 exchanges, flags, lastDone, snap>>

(***************************************************************************)
(* readNB() and HX711ReadData(), one action per statement                  *)
(***************************************************************************)
\* _inISR = true;
ReadNB_SetInISR ==
  /\ Run("nb1")
  /\ inISR' = [inISR EXCEPT ![Top.inst] = TRUE]
  /\ Goto("nb2")
  /\ UNCHANGED <<enableB, mode, nextReadA, readCounter, chanData, myISRId,
                 ISRUsed, myInstance, pinDat, iflag, handler, clk, dev,
                 exchanges, flags, lastDone, snap>>

\* if (_enableB) _nextReadA = !_nextReadA;
ReadNB_NextChannel ==
  /\ Run("nb2")
  /\ LET i == Top.inst IN
       /\ nextReadA' = [nextReadA EXCEPT ![i] = ToggleNextRead(enableB[i], nextReadA[i])]
       /\ flags' = [flags EXCEPT ![i].allB = @ /\ enableB[i]]
  /\ Goto("nb3")
  /\ UNCHANGED <<enableB, mode, readCounter, chanData, myISRId, inISR,
                 ISRUsed, myInstance, pinDat, iflag, handler, clk, dev,
                 exchanges, lastDone, snap>>

\* if (!_nextReadA) extras = 2; else if (_mode == GAIN_128) extras = 1; else extras = 3;
ReadNB_Extras ==
  /\ Run("nb3")
  /\ LET i == Top.inst IN
       stack' = [stack EXCEPT ![Len(stack)] =
                   [Top EXCEPT !.extras = ExtraPulses(nextReadA[i], mode[i]),
                               !.gain = mode[i],
                               !.pc = "nb4"]]
  /\ UNCHANGED <<enableB, mode, nextReadA, readCounter, chanData, myISRId, inISR,
                 ISRUsed, myInstance, pinDat, iflag, handler, clk, dev,
                 exchanges, flags, lastDone, snap>>

\* mutant: noInterrupts() is missing
ReadNB_NoInterrupts_Missing ==
  /\ Run("nb4")
  /\ stack' = [stack EXCEPT ![Len(stack)] =
                 [Top EXCEPT !.hxmode = Top.extras, !.value = 0, !.sent = 0,
                             !.mask = 2^(DATA_BITS - 1), !.pc = "hx1"]]
  /\ UNCHANGED <<enableB, mode, nextReadA, readCounter, chanData, myISRId, inISR,
                 ISRUsed, myInstance, pinDat, iflag, handler, clk, dev,
                 exchanges, flags, lastDone, snap>>

\* noInterrupts(); value = HX711ReadData(extras) is entered:
\* int32_t value = 0; uint32_t mask = 0x800000L;
ReadNB_NoInterrupts ==
  /\ Run("nb4")
  /\ iflag' = FALSE
  /\ stack' = [stack EXCEPT ![Len(stack)] =
                 [Top EXCEPT !.hxmode = Top.extras, !.value = 0, !.sent = 0,
                             !.mask = 2^(DATA_BITS - 1), !.pc = "hx1"]]
  /\ UNCHANGED <<enableB, mode, nextReadA, readCounter, chanData, myISRId, inISR,
                 ISRUsed, myInstance, pinDat, handler, clk, dev,
                 exchanges, flags, lastDone, snap>>

\* one pass of the data loop: CLK high, sample DAT, CLK low, mask >>= 1
HX711ReadData_DataPulse ==
  /\ Run("hx1")
  /\ LET i == Top.inst
         d == DevPulse(dev[i], clk[i])
         v == IF DatLevel(d) = 1 THEN BitOr24(Top.value, Top.mask) ELSE Top.value
         m == Top.mask \div 2
     IN /\ dev' = [dev EXCEPT ![i] = d]
        /\ clk' = [clk EXCEPT ![i] = 0]
        /\ stack' = [stack EXCEPT ![Len(stack)] =
                       [Top EXCEPT !.value = v, !.mask = m, !.sent = @ + 1,
                                   !.pc = IF m > 0 THEN "hx1" ELSE "hx2"]]
  /\ UNCHANGED <<enableB, mode, nextReadA, readCounter, chanData, myISRId, inISR,
                 ISRUsed, myInstance, pinDat, iflag, handler,
                 exchanges, flags, lastDone, snap>>

\* one pass of the mode loop: CLK high, CLK low, mode--
HX711ReadData_ExtraPulse ==
  /\ Run("hx2")
  /\ LET i == Top.inst
         m == DecMode(Top.hxmode)
     IN /\ dev' = [dev EXCEPT ![i] = DevPulse(dev[i], clk[i])]
        /\ clk' = [clk EXCEPT ![i] = 0]
        /\ exchanges' = [exchanges EXCEPT ![i] = IF m > 0 THEN @ ELSE @ + 1]
        /\ stack' = [stack EXCEPT ![Len(stack)] =
                       [Top EXCEPT !.hxmode = m, !.sent = @ + 1,
                                   !.pc = IF m > 0 THEN "hx2" ELSE "nb5"]]
  /\ UNCHANGED <<enableB, mode, nextReadA, readCounter, chanData, myISRId, inISR,
                 ISRUsed, myInstance, pinDat, iflag, handler,
                 flags, lastDone, snap>>

\* interrupts();
ReadNB_Interrupts ==
  /\ Run("nb5")
  /\ iflag' = TRUE
  /\ Goto("nb6")
  /\ UNCHANGED <<enableB, mode, nextReadA, readCounter, chanData, myISRId, inISR,
                 ISRUsed, myInstance, pinDat, handler, clk, dev,
                 exchanges, flags, lastDone, snap>>

\* sign extend, _chanData[ch].raw = value;
ReadNB_Store ==
  /\ Run("nb6")
  /\ LET i == Top.inst
         ch == StoreChannel(enableB[i], nextReadA[i])
     IN /\ chanData' = [chanData EXCEPT ![i][ch].raw = SignExtend(Top.value)]
        /\ stack' = [stack EXCEPT ![Len(stack)] = [Top EXCEPT !.ch = ch, !.pc = "nb7"]]
        /\ flags' = [flags EXCEPT ![i].last = <<ch>>]
  /\ UNCHANGED <<enableB, mode, nextReadA, readCounter, myISRId, inISR,
                 ISRUsed, myInstance, pinDat, iflag, handler, clk, dev,
                 exchanges, lastDone, snap>>

\* _readCounter++;
ReadNB_Count ==
  /\ Run("nb7")
  /\ readCounter' = [readCounter EXCEPT ![Top.inst] = IncCounter(@)]
  /\ Goto("nb8")
  /\ UNCHANGED <<enableB, mode, nextReadA, chanData, myISRId, inISR,
                 ISRUsed, myInstance, pinDat, iflag, handler, clk, dev,
                 exchanges, flags, lastDone, snap>>

\* _inISR = false; and return
ReadNB_ClearInISR ==
  /\ Run("nb8")
  /\ inISR' = [inISR EXCEPT ![Top.inst] = FALSE]
  /\ Finish(Top, TRUE)
  /\ UNCHANGED <<enableB, mode, nextReadA, readCounter, chanData, myISRId,
                 ISRUsed, myInstance, pinDat, handler, clk, dev,
                 exchanges, flags, snap>>

(***************************************************************************)
(* read()                                                                  *)
(***************************************************************************)
CallRead(i) ==
  /\ isInterruptMode(myISRId[i]) \/ readCounter[i] < MaxReads
  /\ Call(Frame("fg", "read", i, "rd1"), NoSnap)
  /\ UNCHANGED <<enableB, mode, nextReadA, readCounter, chanData, myISRId, inISR,
                 ISRUsed, myInstance, pinDat, iflag, handler, clk, dev,
                 exchanges, flags>>

\* if (!isInterruptMode())
Read_CheckMode ==
  /\ Run("rd1")
  /\ Goto(IF isInterruptMode(myISRId[Top.inst]) THEN "rd3" ELSE "rd2")
  /\ UNCHANGED <<enableB, mode, nextReadA, readCounter, chanData, myISRId, inISR,
                 ISRUsed, myInstance, pinDat, iflag, handler, clk, dev,
                 exchanges, flags, lastDone, snap>>

\* while (!isReady()) { yield(); }  readNB();
Read_WaitReady ==
  /\ Run("rd2")
  /\ DatLevel(dev[Top.inst]) = 0
  /\ stack' = [stack EXCEPT ![Len(stack)] = [Top EXCEPT !.pc = "nb1", !.ret = <<"rd3">> \o @]]
  /\ UNCHANGED <<enableB, mode, nextReadA, readCounter, chanData, myISRId, inISR,
                 ISRUsed, myInstance, pinDat, iflag, handler, clk, dev,
                 exchanges, flags, lastDone, snap>>

\* return(_enableB && _nextReadA ? CH_B : CH_A);
Read_Return ==
  /\ Run("rd3")
  /\ LET r == ReadResult(enableB[Top.inst], nextReadA[Top.inst]) IN
       Finish([Top EXCEPT !.ch = r], r)
  /\ UNCHANGED <<enableB, mode, nextReadA, readCounter, chanData, myISRId, inISR,
                 ISRUsed, myInstance, pinDat, handler, clk, dev,
                 exchanges, flags, snap>>

(***************************************************************************)
(* powerDown() / powerUp()                                                 *)
(***************************************************************************)
\* digitalWrite(_pinClk, HIGH); the 64 us delay then starts
PowerDown ==
  /\ Run("pd")
  /\ clk' = [clk EXCEPT ![Top.inst] = 1]
  /\ dev' = [dev EXCEPT ![Top.inst].hold = TRUE]
  /\ Goto("pu")
  /\ UNCHANGED <<enableB, mode, nextReadA, readCounter, chanData, myISRId, inISR,
                 ISRUsed, myInstance, pinDat, iflag, handler,
                 exchanges, flags, lastDone, snap>>

\* the delay is over; digitalWrite(_pinClk, LOW): a device whose CLK stayed
\* high all that time has powered down and restarts with its defaults
PowerUp ==
  /\ Run("pu")
  /\ clk' = [clk EXCEPT ![Top.inst] = 0]
  /\ dev' = [dev EXCEPT ![Top.inst] = IF @.hold THEN DevReset ELSE @]
  /\ Finish(Top, TRUE)
  /\ UNCHANGED <<enableB, mode, nextReadA, readCounter, chanData, myISRId, inISR,
                 ISRUsed, myInstance, pinDat, handler,
                 exchanges, flags, snap>>

(***************************************************************************)
(* enableInterruptMode(), enableISR(), disableISR()                        *)
(***************************************************************************)
CallEnableInterruptMode(i, enable) ==
  /\ IF enable
       THEN Call(Frame("fg", "enableISR", i, "en1"), RegState)
       ELSE Call(Frame("fg", "disableISR", i, "ds1"), NoSnap)
  /\ UNCHANGED <<enableB, mode, nextReadA, readCounter, chanData, myISRId, inISR,
                 ISRUsed, myInstance, pinDat, iflag, handler, clk, dev,
                 exchanges, flags>>

\* if (isInterruptMode()) return(false);  if (irq != NOT_AN_INTERRUPT) ...
EnableISR_Check ==
  /\ Run("en1")
  /\ LET i == Top.inst
         f == [Top EXCEPT !.again = flags[i].full]
     IN /\ IF isInterruptMode(myISRId[i]) THEN Finish(f, FALSE)
           ELSE IF digitalPinToInterrupt(pinDat[i]) = NOT_AN_INTERRUPT THEN Finish(f, FALSE)
           ELSE /\ stack' = [stack EXCEPT ![Len(stack)] = [f EXCEPT !.pc = "en2"]]
                /\ UNCHANGED <<iflag, lastDone>>
        /\ flags' = [flags EXCEPT ![i].full = FALSE]
  /\ UNCHANGED <<enableB, mode, nextReadA, readCounter, chanData, myISRId, inISR,
                 ISRUsed, myInstance, pinDat, handler, clk, dev,
                 exchanges, snap>>

\* the for loop up to: _myISRId = i;
EnableISR_FindId ==
  /\ Run("en2")
  /\ LET id == FreeISRId(ISRUsed) IN
       IF id # UINT8_MAX
         THEN myISRId' = [myISRId EXCEPT ![Top.inst] = id] /\ Goto("en3")
         ELSE UNCHANGED myISRId /\ Goto("en5")
  /\ UNCHANGED <<enableB, mode, nextReadA, readCounter, chanData, inISR,
                 ISRUsed, myInstance, pinDat, iflag, handler, clk, dev,
                 exchanges, flags, lastDone, snap>>

\* mutant: the instance is not recorded in the table
EnableISR_Record_Missing ==
  /\ Run("en3")
  /\ Goto("en4")
  /\ UNCHANGED <<enableB, mode, nextReadA, readCounter, chanData, myISRId, inISR,
                 ISRUsed, myInstance, pinDat, iflag, handler, clk, dev,
                 exchanges, flags, lastDone, snap>>

\* myInstance[_myISRId] = this;
EnableISR_Record ==
  /\ Run("en3")
  /\ myInstance' = [myInstance EXCEPT ![myISRId[Top.inst]] = Top.inst]
  /\ Goto("en4")
  /\ UNCHANGED <<enableB, mode, nextReadA, readCounter, chanData, myISRId, inISR,
                 ISRUsed, pinDat, iflag, handler, clk, dev,
                 exchanges, flags, lastDone, snap>>

\* ISRUsed |= _BV(_myISRId);
EnableISR_Lock ==
  /\ Run("en4")
  /\ ISRUsed' = ISRUsed \cup {myISRId[Top.inst]}
  /\ Goto("en5")
  /\ UNCHANGED <<enableB, mode, nextReadA, readCounter, chanData, myISRId, inISR,
                 myInstance, pinDat, iflag, handler, clk, dev,
                 exchanges, flags, lastDone, snap>>

\* if (_myISRId != UINT8_MAX) { attachInterrupt(irq, ISRfunc[_myISRId], LOW);
\* powerDown(); powerUp(); } else irq = NOT_AN_INTERRUPT;   return(irq != ...)
EnableISR_Attach ==
  /\ Run("en5")
  /\ LET i == Top.inst IN
       IF myISRId[i] # UINT8_MAX
         THEN /\ handler' = [handler EXCEPT ![digitalPinToInterrupt(pinDat[i])] = myISRId[i]]
              /\ Goto("pd")
              /\ UNCHANGED <<iflag, lastDone>>
         ELSE /\ UNCHANGED handler
              /\ Finish(Top, FALSE)
  /\ flags' = [flags EXCEPT ![Top.inst].full = (myISRId[Top.inst] = UINT8_MAX)]
  /\ UNCHANGED <<enableB, mode, nextReadA, readCounter, chanData, myISRId, inISR,
                 ISRUsed, myInstance, pinDat, clk, dev,
                 exchanges, snap>>

\* if (isInterruptMode())
DisableISR_Check ==
  /\ Run("ds1")
  /\ Goto(IF isInterruptMode(myISRId[Top.inst]) THEN "ds2" ELSE "ds7")
  /\ UNCHANGED <<enableB, mode, nextReadA, readCounter, chanData, myISRId, inISR,
                 ISRUsed, myInstance, pinDat, iflag, handler, clk, dev,
                 exchanges, flags, lastDone, snap>>

\* while (_inISR) { yield(); }
DisableISR_Wait ==
  /\ Run("ds2")
  /\ ~inISR[Top.inst]
  /\ Goto("ds3")
  /\ UNCHANGED <<enableB, mode, nextReadA, readCounter, chanData, myISRId, inISR,
                 ISRUsed, myInstance, pinDat, iflag, handler, clk, dev,
                 exchanges, flags, lastDone, snap>>

\* noInterrupts();
DisableISR_NoInterrupts ==
  /\ Run("ds3")
  /\ iflag' = FALSE
  /\ Goto("ds4")
  /\ UNCHANGED <<enableB, mode, nextReadA, readCounter, chanData, myISRId, inISR,
                 ISRUsed, myInstance, pinDat, handler, clk, dev,
                 exchanges, flags, lastDone, snap>>

\* mutant: detachInterrupt() is missing
DisableISR_Detach_Missing ==
  /\ Run("ds4")
  /\ Goto("ds5")
  /\ UNCHANGED <<enableB, mode, nextReadA, readCounter, chanData, myISRId, inISR,
                 ISRUsed, myInstance, pinDat, iflag, handler, clk, dev,
                 exchanges, flags, lastDone, snap>>

\* detachInterrupt(digitalPinToInterrupt(_pinDat));
DisableISR_Detach ==
  /\ Run("ds4")
  /\ handler' = [handler EXCEPT ![digitalPinToInterrupt(pinDat[Top.inst])] = NoHandler]
  /\ Goto("ds5")
  /\ UNCHANGED <<enableB, mode, nextReadA, readCounter, chanData, myISRId, inISR,
                 ISRUsed, myInstance, pinDat, iflag, clk, dev,
                 exchanges, flags, lastDone, snap>>

\* mutant: the slot is not freed
DisableISR_Free_Missing ==
  /\ Run("ds5")
  /\ Goto("ds6")
  /\ UNCHANGED <<enableB, mode, nextReadA, readCounter, chanData, myISRId, inISR,
                 ISRUsed, myInstance, pinDat, iflag, handler, clk, dev,
                 exchanges, flags, lastDone, snap>>

\* ISRUsed &= ~_BV(_myISRId);
DisableISR_Free ==
  /\ Run("ds5")
  /\ ISRUsed' = ISRUsed \ {myISRId[Top.inst]}
  /\ Goto("ds6")
  /\ UNCHANGED <<enableB, mode, nextReadA, readCounter, chanData, myISRId, inISR,
                 myInstance, pinDat, iflag, handler, clk, dev,
                 exchanges, flags, lastDone, snap>>

\* interrupts();
DisableISR_Interrupts ==
  /\ Run("ds6")
  /\ iflag' = TRUE
  /\ Goto("ds7")
  /\ UNCHANGED <<enableB, mode, nextReadA, readCounter, chanData, myISRId, inISR,
                 ISRUsed, myInstance, pinDat, handler, clk, dev,
                 exchanges, flags, lastDone, snap>>

\* _myISRId = UINT8_MAX; _inISR = false; and return
DisableISR_Clear ==
  /\ Run("ds7")
  /\ myISRId' = [myISRId EXCEPT ![Top.inst] = UINT8_MAX]
  /\ inISR' = [inISR EXCEPT ![Top.inst] = FALSE]
  /\ Finish(Top, TRUE)
  /\ UNCHANGED <<enableB, mode, nextReadA, readCounter, chanData,
                 ISRUsed, myInstance, pinDat, handler, clk, dev,
                 exchanges, flags, snap>>

(***************************************************************************)
(* reset()                                                                 *)
(***************************************************************************)
\* mutant: the loop over the channels stops after Channel A
ResetChanData_OnlyA ==
  [ch \in Channels |-> IF ch = CH_A THEN ZeroChan ELSE chanData[Top.inst][ch]]

\* the values reset() gives the fields it initialises
ResetChanData == [ch \in Channels |-> ZeroChan]

ResetNextReadA == TRUE

ResetMode == GAIN_128

\* powerDown(); powerUp(); come first
CallReset(i) ==
  /\ Call([Frame("fg", "reset", i, "pd") EXCEPT !.ret = <<"rs3">>], NoSnap)
  /\ UNCHANGED <<enableB, mode, nextReadA, readCounter, chanData, myISRId, inISR,
                 ISRUsed, myInstance, pinDat, iflag, handler, clk, dev,
                 exchanges, flags>>

\* enableChannelB(false);
Reset_ChannelB ==
  /\ Run("rs3")
  /\ enableB' = [enableB EXCEPT ![Top.inst] = FALSE]
  /\ Goto("rs4")
  /\ UNCHANGED <<mode, nextReadA, readCounter, chanData, myISRId, inISR,
                 ISRUsed, myInstance, pinDat, iflag, handler, clk, dev,
                 exchanges, flags, lastDone, snap>>

\* setGainA(GAIN_128); disableISR() is called next
Reset_Gain ==
  /\ Run("rs4")
  /\ mode' = [mode EXCEPT ![Top.inst] = ResetMode]
  /\ stack' = [stack EXCEPT ![Len(stack)] = [Top EXCEPT !.pc = "ds1", !.ret = <<"rs6">>]]
  /\ UNCHANGED <<enableB, nextReadA, readCounter, chanData, myISRId, inISR,
                 ISRUsed, myInstance, pinDat, iflag, handler, clk, dev,
                 exchanges, flags, lastDone, snap>>

\* _nextReadA = true; _readCounter = 0; the loop over _chanData; and return
Reset_Fields ==
  /\ Run("rs6")
  /\ LET i == Top.inst IN
       /\ nextReadA' = [nextReadA EXCEPT ![i] = ResetNextReadA]
       /\ readCounter' = [readCounter EXCEPT ![i] = 0]
       /\ chanData' = [chanData EXCEPT ![i] = ResetChanData]
       /\ exchanges' = [exchanges EXCEPT ![i] = 0]
       /\ flags' = [flags EXCEPT ![i] = NoFlags]
  /\ Finish(Top, TRUE)
  /\ UNCHANGED <<enableB, mode, myISRId, inISR,
                 ISRUsed, myInstance, pinDat, handler, clk, dev, snap>>

(***************************************************************************)
(* The inline setters of MD_HX711.h                                        *)
(***************************************************************************)
\* inline void enableChannelB(bool ena = true) { _enableB = ena; }
enableChannelB(i, ena) ==
  /\ stack = <<>>
  /\ ~IrqPending
  /\ enableB' = [enableB EXCEPT ![i] = ena]
  /\ flags' = [flags EXCEPT ![i].neverB = @ /\ ~ena]
  /\ lastDone' = NoneDone
  /\ snap' = NoSnap
  /\ UNCHANGED <<mode, nextReadA, readCounter, chanData, myISRId, inISR,
                 ISRUsed, myInstance, pinDat, iflag, handler, clk, dev, stack, exchanges>>

\* inline void setGainA(mode_t mode) { _mode = mode; }
setGainA(i, m) ==
  /\ stack = <<>>
  /\ ~IrqPending
  /\ mode' = [mode EXCEPT ![i] = m]
  /\ lastDone' = NoneDone
  /\ snap' = NoSnap
  /\ UNCHANGED <<enableB, nextReadA, readCounter, chanData, myISRId, inISR,
                 ISRUsed, myInstance, pinDat, iflag, handler, clk, dev, stack,
                 exchanges, flags>>

(***************************************************************************)
(* One driver object on an interrupt pin: every operation, every step      *)
(***************************************************************************)
Init == InitFor({1}, [i \in {1} |-> 1])

Steps ==
  \/ ReadNB_SetInISR \/ ReadNB_NextChannel \/ ReadNB_Extras \/ ReadNB_NoInterrupts
  \/ HX711ReadData_DataPulse \/ HX711ReadData_ExtraPulse
  \/ ReadNB_Interrupts \/ ReadNB_Store \/ ReadNB_Count \/ ReadNB_ClearInISR
  \/ Read_CheckMode \/ Read_WaitReady \/ Read_Return
  \/ PowerDown \/ PowerUp
  \/ EnableISR_Check \/ EnableISR_FindId \/ EnableISR_Record \/ EnableISR_Lock
  \/ EnableISR_Attach
  \/ DisableISR_Check \/ DisableISR_Wait \/ DisableISR_NoInterrupts
  \/ DisableISR_Detach \/ DisableISR_Free \/ DisableISR_Interrupts \/ DisableISR_Clear
  \/ Reset_ChannelB \/ Reset_Gain \/ Reset_Fields

Next ==
  \/ Steps
  \/ \E i \in Instances : DeviceReady(i)
  \/ \E i \in Instances : Interrupt(i)
  \/ \E i \in Instances : CallRead(i)
  \/ \E i \in Instances : CallReset(i)
  \/ \E i \in Instances, enable \in BOOLEAN : CallEnableInterruptMode(i, enable)
  \/ \E i \in Instances, ena \in BOOLEAN : enableChannelB(i, ena)
  \/ \E i \in Instances, m \in Gains : setGainA(i, m)

Spec == Init /\ [][Next]_vars

(***************************************************************************)
(* One driver object, with the tare and calibration setters                *)
(***************************************************************************)
\* inline void setZeroTare(int32_t tare, channel_t ch = CH_A)
setZeroTare(i, t, ch) ==
  /\ stack = <<>>
  /\ ~IrqPending
  /\ chanData' = [chanData EXCEPT ![i][ch].tare = t]
  /\ lastDone' = NoneDone
  /\ snap' = NoSnap
  /\ UNCHANGED <<enableB, mode, nextReadA, readCounter, myISRId, inISR,
                 ISRUsed, myInstance, pinDat, iflag, handler, clk, dev, stack,
                 exchanges, flags>>

\* inline void setCalibration(int32_t value, float range, channel_t ch = CH_A)
setCalibration(i, v, r, ch) ==
  /\ stack = <<>>
  /\ ~IrqPending
  /\ chanData' = [chanData EXCEPT ![i][ch].calib = v, ![i][ch].range = r]
  /\ lastDone' = NoneDone
  /\ snap' = NoSnap
  /\ UNCHANGED <<enableB, mode, nextReadA, readCounter, myISRId, inISR,
                 ISRUsed, myInstance, pinDat, iflag, handler, clk, dev, stack,
                 exchanges, flags>>

NextCal ==
  \/ Next
  \/ \E i \in Instances, t \in TareValues, ch \in SetterChannels : setZeroTare(i, t, ch)
  \/ \E i \in Instances, v \in CalibValues, r \in RangeValues, ch \in SetterChannels :
       setCalibration(i, v, r, ch)

SpecCal == Init /\ [][NextCal]_vars

(***************************************************************************)
(* The registry: more driver objects than ISR slots, one of them on a pin  *)
(* without external interrupt; attach, detach and reset only               *)
(***************************************************************************)
RegInstances == 1 .. (MAX_INSTANCE + 2)

RegPins == [i \in RegInstances |-> IF i <= MAX_INSTANCE + 1 THEN i ELSE NoIrqPin]

InitReg == InitFor(RegInstances, RegPins)

NextReg ==
  \/ PowerDown \/ PowerUp
  \/ EnableISR_Check \/ EnableISR_FindId \/ EnableISR_Record \/ EnableISR_Lock
  \/ EnableISR_Attach
  \/ DisableISR_Check \/ DisableISR_Wait \/ DisableISR_NoInterrupts
  \/ DisableISR_Detach \/ DisableISR_Free \/ DisableISR_Interrupts \/ DisableISR_Clear
  \/ Reset_ChannelB \/ Reset_Gain \/ Reset_Fields
  \/ \E i \in Instances : CallReset(i)
  \/ \E i \in Instances, enable \in BOOLEAN : CallEnableInterruptMode(i, enable)

SpecReg == InitReg /\ [][NextReg]_vars

(***************************************************************************)
(* Two driver objects, the first on a pin without external interrupt (it   *)
(* is read by polling), the second on an interrupt pin: reads, attach,     *)
(* detach and reset, with the handler of the second preempting the first   *)
(***************************************************************************)
TwoInstances == {1, 2}

TwoPins == [i \in TwoInstances |-> IF i = 1 THEN NoIrqPin ELSE i]

InitTwo == InitFor(TwoInstances, TwoPins)

NextTwo ==
  \/ ReadNB_SetInISR \/ ReadNB_NextChannel \/ ReadNB_Extras \/ ReadNB_NoInterrupts
  \/ HX711ReadData_DataPulse \/ HX711ReadData_ExtraPulse
  \/ ReadNB_Interrupts \/ ReadNB_Store \/ ReadNB_Count \/ ReadNB_ClearInISR
  \/ Read_CheckMode \/ Read_WaitReady \/ Read_Return
  \/ PowerDown \/ PowerUp
  \/ EnableISR_Check \/ EnableISR_FindId \/ EnableISR_Record \/ EnableISR_Lock
  \/ EnableISR_Attach
  \/ DisableISR_Check \/ DisableISR_Wait \/ DisableISR_NoInterrupts
  \/ DisableISR_Detach \/ DisableISR_Free \/ DisableISR_Interrupts \/ DisableISR_Clear
  \/ Reset_ChannelB \/ Reset_Gain \/ Reset_Fields
  \/ \E i \in Instances : DeviceReady(i)
  \/ \E i \in Instances : Interrupt(i)
  \/ \E i \in Instances : CallRead(i)
  \/ \E i \in Instances : CallReset(i)
  \/ \E i \in Instances, enable \in BOOLEAN : CallEnableInterruptMode(i, enable)

SpecTwo == InitTwo /\ [][NextTwo]_vars

(***************************************************************************)
(* Two driver objects on two interrupt pins, both read by their handlers:  *)
(* attach, detach and reset, with the slots changing hands                 *)
(***************************************************************************)
DispatchPins == [i \in TwoInstances |-> i]

\* conversions of one device between two resets
DispatchReads == 1

DeviceReadyDispatch(i) ==
  /\ ~InReadNB(i)
  /\ readCounter[i] < DispatchReads
  /\ Convert(i, Samples)

InitDispatch == InitFor(TwoInstances, DispatchPins)

NextDispatch ==
  \/ ReadNB_SetInISR \/ ReadNB_NextChannel \/ ReadNB_Extras \/ ReadNB_NoInterrupts
  \/ HX711ReadData_DataPulse \/ HX711ReadData_ExtraPulse
  \/ ReadNB_Interrupts \/ ReadNB_Store \/ ReadNB_Count \/ ReadNB_ClearInISR
  \/ PowerDown \/ PowerUp
  \/ EnableISR_Check \/ EnableISR_FindId \/ EnableISR_Record \/ EnableISR_Lock
  \/ EnableISR_Attach
  \/ DisableISR_Check \/ DisableISR_Wait \/ DisableISR_NoInterrupts
  \/ DisableISR_Detach \/ DisableISR_Free \/ DisableISR_Interrupts \/ DisableISR_Clear
  \/ Reset_ChannelB \/ Reset_Gain \/ Reset_Fields
  \/ \E i \in Instances : DeviceReadyDispatch(i)
  \/ \E i \in Instances : Interrupt(i)
  \/ \E i \in Instances : CallReset(i)
  \/ \E i \in Instances, enable \in BOOLEAN : CallEnableInterruptMode(i, enable)

SpecDispatch == InitDispatch /\ [][NextDispatch]_vars

(***************************************************************************)
(* getRaw() called while the instance is read by its interrupt handler     *)
(***************************************************************************)
\* the bytes one load instruction moves: 1 on the 8 bit AVR boards, 4 where
\* an aligned int32_t is loaded in one access
AccessBytes == {1, 4}

\* the application calls getRaw(ch)
CallGetRaw(i, ch, w) ==
  /\ Call([Frame("fg", "getRaw", i, "gr1") EXCEPT !.ch = ch, !.access = w],
          <<ch, chanData[i][ch].raw>>)
  /\ UNCHANGED <<enableB, mode, nextReadA, readCounter, chanData, myISRId, inISR,
                 ISRUsed, myInstance, pinDat, iflag, handler, clk, dev,
                 exchanges, flags>>

\* return(_chanData[ch].raw): one load of the volatile int32_t, least
\* significant byte first; the last one returns the bytes loaded
GetRaw_Load ==
  /\ Run("gr1")
  /\ LET raw == chanData[Top.inst][Top.ch].raw
         from == Len(Top.bytes)
         bs == Top.bytes \o [k \in 1 .. Top.access |-> ByteOf(raw, from + k - 1)]
     IN IF Len(bs) < 4
          THEN /\ stack' = [stack EXCEPT ![Len(stack)] = [Top EXCEPT !.bytes = bs]]
               /\ UNCHANGED <<iflag, lastDone>>
          ELSE Finish(Top, Int32OfBytes(bs))
  /\ UNCHANGED <<enableB, mode, nextReadA, readCounter, chanData, myISRId, inISR,
                 ISRUsed, myInstance, pinDat, handler, clk, dev,
                 exchanges, flags, snap>>

InitGet == InitFor({1}, [i \in {1} |-> 1])

NextGet ==
  \/ ReadNB_SetInISR \/ ReadNB_NextChannel \/ ReadNB_Extras \/ ReadNB_NoInterrupts
  \/ HX711ReadData_DataPulse \/ HX711ReadData_ExtraPulse
  \/ ReadNB_Interrupts \/ ReadNB_Store \/ ReadNB_Count \/ ReadNB_ClearInISR
  \/ PowerDown \/ PowerUp
  \/ EnableISR_Check \/ EnableISR_FindId \/ EnableISR_Record \/ EnableISR_Lock
  \/ EnableISR_Attach
  \/ GetRaw_Load
  \/ \E i \in Instances : DeviceReady(i)
  \/ \E i \in Instances : Interrupt(i)
  \/ \E i \in Instances : CallEnableInterruptMode(i, TRUE)
  \/ \E i \in Instances, ch \in Channels, w \in AccessBytes : CallGetRaw(i, ch, w)

SpecGet == InitGet /\ [][NextGet]_vars

(***************************************************************************)
(* autoZeroTare()                                                          *)
(***************************************************************************)
\* the application calls autoZeroTare(); remembered for the properties: the
\* Channel B flag and the mode at the call
CallAutoZeroTare(i) ==
  /\ Call(Frame("fg", "autoZeroTare", i, "az1"),
          <<enableB[i], isInterruptMode(myISRId[i])>>)
  /\ UNCHANGED <<enableB, mode, nextReadA, readCounter, chanData, myISRId, inISR,
                 ISRUsed, myInstance, pinDat, iflag, handler, clk, dev,
                 exchanges, flags>>

\* bool b = _enableB; bool wasIRQ = isInterruptMode();
\* if (wasIRQ) enableInterruptMode(false);
AutoZeroTare_Save ==
  /\ Run("az1")
  /\ LET i == Top.inst
         irq == isInterruptMode(myISRId[i])
     IN stack' = [stack EXCEPT ![Len(stack)] =
                    [Top EXCEPT !.b = enableB[i], !.wasIRQ = irq,
                                !.pc = IF irq THEN "ds1" ELSE "az2",
                                !.ret = IF irq THEN <<"az2">> ELSE <<>>]]
  /\ UNCHANGED <<enableB, mode, nextReadA, readCounter, chanData, myISRId, inISR,
                 ISRUsed, myInstance, pinDat, iflag, handler, clk, dev,
                 exchanges, flags, lastDone, snap>>

\* enableChannelB(true); and the two loops are entered: n = 0, i = 0
AutoZeroTare_EnableB ==
  /\ Run("az2")
  /\ enableB' = [enableB EXCEPT ![Top.inst] = TRUE]
  /\ flags' = [flags EXCEPT ![Top.inst].neverB = FALSE]
  /\ stack' = [stack EXCEPT ![Len(stack)] = [Top EXCEPT !.n = 0, !.k = 0, !.pc = "az3"]]
  /\ UNCHANGED <<mode, nextReadA, readCounter, chanData, myISRId, inISR,
                 ISRUsed, myInstance, pinDat, iflag, handler, clk, dev,
                 exchanges, lastDone, snap>>

\* channel_t ch = read(); is called
AutoZeroTare_Read ==
  /\ Run("az3")
  /\ stack' = [stack EXCEPT ![Len(stack)] = [Top EXCEPT !.pc = "rd1", !.ret = <<"az4">>]]
  /\ UNCHANGED <<enableB, mode, nextReadA, readCounter, chanData, myISRId, inISR,
                 ISRUsed, myInstance, pinDat, iflag, handler, clk, dev,
                 exchanges, flags, lastDone, snap>>

\* if (n == 0) tare = raw; else tare = ((tare * (n - 1)) + raw) / n;
TareUpdate(n, tare, raw) ==
  IF n = 0 THEN raw ELSE CDiv(tare * (n - 1) + raw, n)

\* read() has returned ch: the tare of ch is updated, then i++, and n++ at
\* the end of the inner loop
AutoZeroTare_Average ==
  /\ Run("az4")
  /\ LET i == Top.inst
         ch == Top.ch
         raw == chanData[i][ch].raw
         k == IF Top.k + 1 < NUM_CHAN THEN Top.k + 1 ELSE 0
         n == IF Top.k + 1 < NUM_CHAN THEN Top.n ELSE Top.n + 1
     IN /\ chanData' = [chanData EXCEPT ![i][ch].tare = TareUpdate(Top.n, @, raw)]
        /\ stack' = [stack EXCEPT ![Len(stack)] =
                       [Top EXCEPT !.k = k, !.n = n,
                                   !.got = [@ EXCEPT ![ch] = Append(@, raw)],
                                   !.prev = [@ EXCEPT ![ch] = chanData[i][ch].tare],
                                   !.pc = IF n < NUM_PASSES THEN "az3" ELSE "az5"]]
  /\ UNCHANGED <<enableB, mode, nextReadA, readCounter, myISRId, inISR,
                 ISRUsed, myInstance, pinDat, iflag, handler, clk, dev,
                 exchanges, flags, lastDone, snap>>

\* mutant: Channel B is left enabled
AutoZeroTare_RestoreB_Missing ==
  /\ Run("az5")
  /\ stack' = [stack EXCEPT ![Len(stack)] =
                 [Top EXCEPT !.pc = IF Top.wasIRQ THEN "en1" ELSE "az6",
                             !.ret = IF Top.wasIRQ THEN <<"az6">> ELSE <<>>]]
  /\ UNCHANGED <<enableB, mode, nextReadA, readCounter, chanData, myISRId, inISR,
                 ISRUsed, myInstance, pinDat, iflag, handler, clk, dev,
                 exchanges, flags, lastDone, snap>>

\* enableChannelB(b); if (wasIRQ) enableInterruptMode(true);
AutoZeroTare_RestoreB ==
  /\ Run("az5")
  /\ enableB' = [enableB EXCEPT ![Top.inst] = Top.b]
  /\ flags' = [flags EXCEPT ![Top.inst].neverB = @ /\ ~Top.b]
  /\ stack' = [stack EXCEPT ![Len(stack)] =
                 [Top EXCEPT !.pc = IF Top.wasIRQ THEN "en1" ELSE "az6",
                             !.ret = IF Top.wasIRQ THEN <<"az6">> ELSE <<>>]]
  /\ UNCHANGED <<mode, nextReadA, readCounter, chanData, myISRId, inISR,
                 ISRUsed, myInstance, pinDat, iflag, handler, clk, dev,
                 exchanges, lastDone, snap>>

\* autoZeroTare() returns
AutoZeroTare_Return ==
  /\ Run("az6")
  /\ Finish(Top, TRUE)
  /\ UNCHANGED <<enableB, mode, nextReadA, readCounter, chanData, myISRId, inISR,
                 ISRUsed, myInstance, pinDat, handler, clk, dev,
                 exchanges, flags, snap>>

\* a conversion completes, as in DeviceReady
DeviceReadyTare(i) ==
  /\ ~InReadNB(i)
  /\ exchanges[i] < TareReads
  /\ Convert(i, TareSamples)

InitTare == InitFor({1}, [i \in {1} |-> 1])

NextTare ==
  \/ AutoZeroTare_Save \/ AutoZeroTare_EnableB \/ AutoZeroTare_Read
  \/ AutoZeroTare_Average \/ AutoZeroTare_RestoreB \/ AutoZeroTare_Return
  \/ ReadNB_SetInISR \/ ReadNB_NextChannel \/ ReadNB_Extras \/ ReadNB_NoInterrupts
  \/ HX711ReadData_DataPulse \/ HX711ReadData_ExtraPulse
  \/ ReadNB_Interrupts \/ ReadNB_Store \/ ReadNB_Count \/ ReadNB_ClearInISR
  \/ Read_CheckMode \/ Read_WaitReady \/ Read_Return
  \/ PowerDown \/ PowerUp
  \/ EnableISR_Check \/ EnableISR_FindId \/ EnableISR_Record \/ EnableISR_Lock
  \/ EnableISR_Attach
  \/ DisableISR_Check \/ DisableISR_Wait \/ DisableISR_NoInterrupts
  \/ DisableISR_Detach \/ DisableISR_Free \/ DisableISR_Interrupts \/ DisableISR_Clear
  \/ \E i \in Instances : DeviceReadyTare(i)
  \/ \E i \in Instances : Interrupt(i)
  \/ \E i \in Instances : CallAutoZeroTare(i)
  \/ \E i \in Instances : CallEnableInterruptMode(i, TRUE)
  \/ \E i \in Instances, ena \in BOOLEAN : enableChannelB(i, ena)

SpecTare == InitTare /\ [][NextTare]_vars

(***************************************************************************)
(* One driver object read by polling, over the 24 bit patterns             *)
(***************************************************************************)
DeviceReadySign(i) ==
  /\ ~InReadNB(i)
  /\ exchanges[i] < SignReads
  /\ Convert(i, SignPatterns)

InitSign == InitFor({1}, [i \in {1} |-> 1])

NextSign ==
  \/ ReadNB_SetInISR \/ ReadNB_NextChannel \/ ReadNB_Extras \/ ReadNB_NoInterrupts
  \/ HX711ReadData_DataPulse \/ HX711ReadData_ExtraPulse
  \/ ReadNB_Interrupts \/ ReadNB_Store \/ ReadNB_Count \/ ReadNB_ClearInISR
  \/ Read_CheckMode \/ Read_WaitReady \/ Read_Return
  \/ \E i \in Instances : DeviceReadySign(i)
  \/ \E i \in Instances : CallRead(i)

SpecSign == InitSign /\ [][NextSign]_vars

(***************************************************************************)
(* One driver object read by polling, with the setters, reset() and        *)
(* getCalibrated()                                                         *)
(***************************************************************************)
\* the application calls getCalibrated(ch): it writes no field
CallGetCalibrated(i, ch) ==
  /\ stack = <<>>
  /\ ~IrqPending
  /\ lastDone' = [op |-> "getCalibrated", inst |-> i,
                  result |-> getCalibrated(chanData[i][ch]), again |-> FALSE]
  /\ snap' = <<ch>>
  /\ UNCHANGED <<enableB, mode, nextReadA, readCounter, chanData, myISRId, inISR,
                 ISRUsed, myInstance, pinDat, iflag, handler, clk, dev, stack,
                 exchanges, flags>>

InitNaN == InitFor({1}, [i \in {1} |-> 1])

NextNaN ==
  \/ ReadNB_SetInISR \/ ReadNB_NextChannel \/ ReadNB_Extras \/ ReadNB_NoInterrupts
  \/ HX711ReadData_DataPulse \/ HX711ReadData_ExtraPulse
  \/ ReadNB_Interrupts \/ ReadNB_Store \/ ReadNB_Count \/ ReadNB_ClearInISR
  \/ Read_CheckMode \/ Read_WaitReady \/ Read_Return
  \/ PowerDown \/ PowerUp
  \/ Reset_ChannelB \/ Reset_Gain \/ DisableISR_Check \/ DisableISR_Clear \/ Reset_Fields
  \/ \E i \in Instances : DeviceReady(i)
  \/ \E i \in Instances : CallRead(i)
  \/ \E i \in Instances : CallReset(i)
  \/ \E i \in Instances, t \in CalibInputs, ch \in SetterChannels : setZeroTare(i, t, ch)
  \/ \E i \in Instances, v \in CalibInputs, r \in RangeInputs, ch \in SetterChannels :
       setCalibration(i, v, r, ch)
  \/ \E i \in Instances, ch \in Channels : CallGetCalibrated(i, ch)

SpecNaN == InitNaN /\ [][NextNaN]_vars

(***************************************************************************)
(* One driver object whose reads may start late                            *)
(***************************************************************************)
\* some frame of instance i is inside HX711ReadData or about to enter it
InPulseTrain(i) ==
  \E n \in 1 .. Len(stack) :
    stack[n].inst = i /\ stack[n].pc \in {"nb1", "nb2", "nb3", "nb4", "hx1", "hx2"}

\* The HX711 converts continuously, whether or not the conversion before was
\* read.  A read that starts late in the conversion period (the interrupt was
\* held off, or the handler was attached while DAT was LOW) ends just before
\* the next conversion completes: DAT goes LOW again while readNB is between
\* the last pulse and its return.
DeviceReadyLate(i) ==
  /\ ~InPulseTrain(i)
  /\ exchanges[i] < MaxReads
  /\ Convert(i, Samples)

InitLate == InitFor({1}, [i \in {1} |-> 1])

NextLate ==
  \/ ReadNB_SetInISR \/ ReadNB_NextChannel \/ ReadNB_Extras \/ ReadNB_NoInterrupts
  \/ HX711ReadData_DataPulse \/ HX711ReadData_ExtraPulse
  \/ ReadNB_Interrupts \/ ReadNB_Store \/ ReadNB_Count \/ ReadNB_ClearInISR
  \/ Read_CheckMode \/ Read_WaitReady \/ Read_Return
  \/ PowerDown \/ PowerUp
  \/ EnableISR_Check \/ EnableISR_FindId \/ EnableISR_Record \/ EnableISR_Lock
  \/ EnableISR_Attach
  \/ \E i \in Instances : DeviceReadyLate(i)
  \/ \E i \in Instances : Interrupt(i)
  \/ \E i \in Instances : CallRead(i)
  \/ \E i \in Instances : CallEnableInterruptMode(i, TRUE)
  \/ \E i \in Instances, ena \in BOOLEAN : enableChannelB(i, ena)

SpecLate == InitLate /\ [][NextLate]_vars

(***************************************************************************)
(* Properties                                                              *)
(***************************************************************************)
\* the frames whose readNB has just stored the reading (before _readCounter++)
Stored == {n \in 1 .. Len(stack) : stack[n].pc = "nb7"}

\* the extra pulses that select Channel A at gain m
ExtrasForA(m) == IF m = GAIN_128 THEN 1 ELSE 3

C2_OnlyChannelA ==
  /\ \A n \in Stored :
       LET f == stack[n] IN
         flags[f.inst].neverB =>
           /\ f.ch = CH_A
           /\ f.extras = ExtrasForA(f.gain)
           /\ f.extras # 2
  /\ \A i \in Instances : flags[i].neverB => chanData[i][CH_B].raw = 0

C2_Witness ==
  \E n \in Stored :
    /\ flags[stack[n].inst].neverB
    /\ exchanges[stack[n].inst] = 2
    /\ stack[n].gain = GAIN_64
    /\ stack[n].extras = 3
    /\ stack[n].ctx = "isr"

\* C3: every reading is stored under the channel the device converted for
\* that cycle (the one the pulses of the cycle before selected, Channel A
\* after a power down).
C3_StoredIsConverted ==
  \A n \in Stored : stack[n].ch = ChannelOfSel(dev[stack[n].inst].sel)

\* the exchanges of instance i that are complete but not counted yet
Uncounted(i) ==
  Cardinality({n \in 1 .. Len(stack) :
                 stack[n].inst = i /\ stack[n].pc \in {"nb5", "nb6", "nb7"}})

Released(i) ==
  /\ myISRId[i] = UINT8_MAX
  /\ \A k \in ISRUsed : myInstance[k] # i
  /\ LET q == digitalPinToInterrupt(pinDat[i]) IN
       q # NOT_AN_INTERRUPT => handler[q] = NoHandler

\* C5: when reset() has returned, the instance has Channel A gain 128,
\* Channel B disabled, next channel A, read counter 0, raw, tare, calib and
\* range 0 for both channels, interrupt mode off and no registry slot.
C5_ResetDefaults ==
  lastDone.op = "reset" =>
    LET i == lastDone.inst IN
      /\ mode[i] = GAIN_128
      /\ ~enableB[i]
      /\ nextReadA[i]
      /\ readCounter[i] = 0
      /\ \A ch \in Channels : chanData[i][ch] = ZeroChan
      /\ ~inISR[i]
      /\ Released(i)

\* reset() has returned for an instance that had been attached; its device
\* was power cycled
C5_Witness ==
  /\ lastDone.op = "reset"
  /\ myInstance[0] = lastDone.inst
  /\ dev[lastDone.inst] = DevReset
  /\ stack = <<>>

\* why an attach called in the state snap must fail
AttachMustFail(i) ==
  \/ isInterruptMode(snap[3][i])
  \/ digitalPinToInterrupt(pinDat[i]) = NOT_AN_INTERRUPT
  \/ snap[1] = Slots

\* C6: an attach of an instance that is already attached, or whose data pin
\* has no interrupt, or called with all 4 slots occupied, returns false and
\* leaves every slot assignment, the bit field, the table, the attached
\* handlers and the clock lines as they were when it was called.
C6_FailedAttach ==
  lastDone.op = "enableISR" =>
    /\ AttachMustFail(lastDone.inst) => (lastDone.result = FALSE /\ RegState = snap)
    /\ lastDone.result = FALSE => RegState = snap

\* a fifth attach, by an instance on an interrupt pin, with 4 attached
C6_Witness ==
  /\ lastDone.op = "enableISR"
  /\ lastDone.result = FALSE
  /\ snap[1] = Slots
  /\ ~isInterruptMode(snap[3][lastDone.inst])
  /\ digitalPinToInterrupt(pinDat[lastDone.inst]) # NOT_AN_INTERRUPT
  /\ Cardinality({i \in Instances : isInterruptMode(myISRId[i])}) = MAX_INSTANCE

Attached == {i \in Instances : isInterruptMode(myISRId[i])}

C8_DetachQuiesces ==
  /\ \A i \in Instances :
       ~isInterruptMode(myISRId[i]) =>
         /\ LET q == digitalPinToInterrupt(pinDat[i]) IN
              q # NOT_AN_INTERRUPT => handler[q] = NoHandler
         /\ \A n \in 1 .. Len(stack) : stack[n].inst = i => stack[n].ctx # "isr"
  /\ lastDone.op = "disableISR" =>
       LET i == lastDone.inst IN
         /\ ~InReadNB(i)
         /\ ~inISR[i]
         /\ readCounter[i] = exchanges[i]
         /\ ~isInterruptMode(myISRId[i])

\* a detach is under way and an interrupt triggered read of the same instance
\* has preempted it
C8_Witness ==
  /\ Len(stack) = 2
  /\ stack[1].op = "disableISR"
  /\ stack[1].pc \in {"ds1", "ds2"}
  /\ stack[2].ctx = "isr"
  /\ stack[2].inst = stack[1].inst
  /\ inISR[stack[1].inst]

\* the frames inside HX711ReadData, and those that have just left it
InExchange == {n \in 1 .. Len(stack) : stack[n].pc \in {"hx1", "hx2"}}

ExchangeDone == {n \in 1 .. Len(stack) : stack[n].pc = "nb5"}

\* C9: an exchange writes 24 data pulses, the k-th of them sampling DAT into
\* bit 24-k (most significant first), then exactly extras more pulses with
\* extras in 1..3: 25, 26 or 27 pulses in all, never more on the way; a
\* device that saw them all has had its pattern returned unchanged.
C9_PulseCount ==
  /\ \A n \in InExchange :
       LET f == stack[n] IN
         /\ f.extras \in 1 .. 3
         /\ f.pc = "hx1" => f.sent < DATA_BITS /\ f.mask = 2^(DATA_BITS - 1 - f.sent)
         /\ f.pc = "hx2" => f.sent >= DATA_BITS /\ f.sent < DATA_BITS + f.extras
  /\ \A n \in ExchangeDone :
       LET f == stack[n] IN
         /\ f.extras \in 1 .. 3
         /\ f.sent = DATA_BITS + f.extras
         /\ f.sent \in 25 .. 27
         /\ dev[f.inst].pulses = f.sent => f.value = dev[f.inst].sample

\* an exchange of 27 pulses has ended and returned the device's pattern
C9_Witness ==
  \E n \in ExchangeDone :
    /\ stack[n].sent = 27
    /\ dev[stack[n].inst].pulses = 27
    /\ stack[n].value = 2^23 + 1
    /\ enableB[stack[n].inst]

\* C10: while a frame is inside HX711ReadData, and until interrupts() after
\* it, the global interrupt flag is clear and that frame is the running one:
\* no handler has been entered on top of it.
C10_ExchangeMasked ==
  \A n \in InExchange \cup ExchangeDone : ~iflag /\ n = Len(stack)

\* a polled exchange of one instance is running while the data pin of the
\* other, attached and already read once by its handler, raises its interrupt
C10_Witness ==
  /\ Len(stack) = 1
  /\ Top.pc = "hx2"
  /\ Top.ctx = "fg"
  /\ \E j \in Instances :
       /\ j # Top.inst
       /\ IrqRaised(j)
       /\ isInterruptMode(myISRId[j])
       /\ readCounter[j] > 0

\* C11: getRaw(ch) returns a complete value of the channel's raw field: the
\* one it held when getRaw was called or the one it holds now, stored by an
\* interrupt triggered read that preempted the getter; never bytes of both.
C11_NoTornRead ==
  lastDone.op = "getRaw" =>
    lastDone.result \in {snap[2], chanData[lastDone.inst][snap[1]].raw}

\* the frames of instance i that are inside readNB
ReadsOf(i) == {n \in 1 .. Len(stack) : stack[n].inst = i /\ stack[n].pc \in ReadNBPcs}

\* C12: at most one readNB of an instance is in progress: none begins, from
\* the foreground or from the handler, while another is between _inISR = true
\* and _inISR = false.
C12_ReadsSequential ==
  \A i \in Instances : Cardinality(ReadsOf(i)) <= 1

\* the statements that read ISRUsed to choose a slot or write ISRUsed or
\* myInstance[]: the loop of enableISR and its two stores, the store of
\* disableISR
RegistryAccessPcs == {"en2", "en3", "en4", "ds5"}

\* C13: whenever attach or detach is about to read the bit field for a free
\* slot or to write the bit field or the table, global interrupts are masked.
C13_RegistryMasked ==
  \A n \in 1 .. Len(stack) :
    (n = Len(stack) /\ stack[n].pc \in RegistryAccessPcs) => ~iflag

\* C14: when read() returns, the channel it returns is the one the latest
\* readNB of the instance stored its reading under: the read it has just made
\* itself in polled mode, the latest interrupt triggered read in interrupt
\* mode.
C14_ReadReturnsLast ==
  \A n \in 1 .. Len(stack) :
    LET i == stack[n].inst IN
      (n = Len(stack) /\ stack[n].pc = "rd3" /\ ~IrqPending /\ flags[i].last # <<>>)
        => ReadResult(enableB[i], nextReadA[i]) = flags[i].last[1]

\* the frames in which autoZeroTare is about to return
TareDone == {n \in 1 .. Len(stack) : stack[n].pc = "az6"}

\* the sum of the numbers of a sequence
RECURSIVE SumSeq(_)
SumSeq(q) == IF q = <<>> THEN 0 ELSE Head(q) + SumSeq(Tail(q))

\* C15: when autoZeroTare() returns it has read each channel three times and
\* the tare of each channel is the sum of the channel's three raw readings
\* divided by 3, truncated.
C15_TareIsAverage ==
  \A n \in TareDone :
    \A ch \in Channels :
      /\ Len(stack[n].got[ch]) = NUM_PASSES
      /\ chanData[stack[n].inst][ch].tare = CDiv(SumSeq(stack[n].got[ch]), NUM_PASSES)

\* where the frame of autoZeroTare is while it makes its passes
TarePassPcs == {"az3", "az4", "rd1", "rd2", "rd3"} \cup ReadNBPcs

\* C16: while autoZeroTare() makes its passes Channel B is enabled and the
\* instance is not in interrupt mode; when it returns, the Channel B flag is
\* what it was at the call and the instance is in interrupt mode exactly when
\* it was at the call.
C16_TareRestoresMode ==
  \A n \in 1 .. Len(stack) :
    LET f == stack[n] IN
      f.op = "autoZeroTare" =>
        /\ f.pc \in TarePassPcs =>
              enableB[f.inst] /\ ~isInterruptMode(myISRId[f.inst])
        /\ f.pc = "az6" =>
              /\ enableB[f.inst] = snap[1]
              /\ isInterruptMode(myISRId[f.inst]) = snap[2]

\* autoZeroTare() is about to return, called with Channel B disabled and in
\* interrupt mode: the handler is attached again
C16_Witness ==
  /\ stack # <<>>
  /\ Top.pc = "az6"
  /\ snap = <<FALSE, TRUE>>
  /\ ~enableB[Top.inst]
  /\ handler[digitalPinToInterrupt(pinDat[Top.inst])] = myISRId[Top.inst]
  /\ Len(Top.got[CH_B]) = NUM_PASSES

\* C17: an attach that fails with all 4 slots occupied leaves the instance in
\* polled mode; and the next attach of that instance, made when some slot
\* has been freed since (by a detach or a reset of its owner), returns true
\* with the instance holding a slot that was freed, recorded in the table
\* and the bit field, and its handler attached.
C17_AttachAfterFull ==
  lastDone.op = "enableISR" =>
    LET i == lastDone.inst IN
      /\ (lastDone.result = FALSE /\ snap[1] = Slots /\ ~isInterruptMode(snap[3][i]))
            => ~isInterruptMode(myISRId[i])
      /\ (lastDone.again /\ snap[1] # Slots) =>
            /\ lastDone.result = TRUE
            /\ myISRId[i] \in Slots \ snap[1]
            /\ myInstance[myISRId[i]] = i
            /\ ISRUsed = snap[1] \cup {myISRId[i]}
            /\ handler[digitalPinToInterrupt(pinDat[i])] = myISRId[i]

\* the fifth instance, whose attach had failed with the four slots occupied,
\* has attached once the owner of slot 2 had detached: it holds slot 2
C17_Witness ==
  /\ lastDone.op = "enableISR"
  /\ lastDone.again
  /\ lastDone.result = TRUE
  /\ lastDone.inst = MAX_INSTANCE + 1
  /\ snap[1] = Slots \ {2}
  /\ myISRId[lastDone.inst] = 2
  /\ ISRUsed = Slots

\* C18: when readNB has stored a reading, the pattern HX711ReadData returned
\* is a 24 bit pattern, the one the device presented, and the raw value stored
\* is its two's complement reading: the pattern minus 2^24, negative, when
\* bit 23 is set; the pattern itself, not negative, when bit 23 is clear.
C18_SignExtension ==
  \A n \in Stored :
    LET f == stack[n]
        raw == chanData[f.inst][f.ch].raw
    IN /\ f.value \in 0 .. (2^DATA_BITS - 1)
       /\ f.value = dev[f.inst].sample
       /\ IF Bit(f.value, DATA_BITS - 1) = 1
            THEN raw = f.value - 2^DATA_BITS /\ raw < 0
            ELSE raw = f.value /\ raw >= 0

\* the all ones pattern has been stored as -1
C18_Witness ==
  \E n \in Stored :
    /\ stack[n].value = 2^DATA_BITS - 1
    /\ chanData[stack[n].inst][stack[n].ch].raw = -1

\* C19: getCalibrated(ch) returns not-a-number whenever the calibration
\* value of the channel equals its tare, whatever raw, range and the common
\* value are, and so for the all zero fields reset() leaves.
C19_NaNWhenUncalibrated ==
  lastDone.op = "getCalibrated" =>
    LET cd == chanData[lastDone.inst][snap[1]] IN
      cd.calib = cd.tare => lastDone.result = NaN

\* not-a-number was returned for a channel with a reading, a range and equal
\* calibration and tare values which are not 0
C19_Witness ==
  /\ lastDone.op = "getCalibrated"
  /\ lastDone.result = NaN
  /\ LET cd == chanData[lastDone.inst][snap[1]] IN
       /\ cd.calib = 2^24 + 1
       /\ cd.tare = cd.calib
       /\ cd.range = 5
       /\ cd.raw < 0

\* C20: a read made while Channel B is disabled, whatever reads and
\* enableChannelB calls came before it, stores under Channel A and requests
\* the extra pulses of the Channel A gain: 1 or 3, not 2.
C20_DisabledBReadsA ==
  \A n \in Stored :
    LET f == stack[n] IN
      ~enableB[f.inst] =>
        /\ f.ch = CH_A
        /\ f.extras \in {1, 3}
        /\ f.extras = ExtrasForA(f.gain)

\* t is s / n in C: s = t * n + r with r smaller than n and of the sign of s
IsTruncQuot(t, s, n) ==
  /\ Abs(t * n) <= Abs(s)
  /\ Abs(s) - Abs(t * n) < n
  /\ t # 0 => ((t > 0) = (s > 0))

\* the frames of autoZeroTare that have entered the loops
TareFrames ==
  {n \in 1 .. Len(stack) :
     stack[n].op = "autoZeroTare" /\ stack[n].pc \notin {"az1", "az2", "ds1", "ds2",
                                                        "ds3", "ds4", "ds5", "ds6", "ds7"}}

\* C21: autoZeroTare() makes passes n = 0, 1, 2; in each it reads every
\* channel once, and a channel's tare after its reading of pass n is the raw
\* value read when n = 0 and (tare * (n - 1) + raw) / n, truncated, of the
\* tare before and the raw value read when n > 0; it returns after three
\* readings of each channel.
C21_TareRule ==
  \A m \in TareFrames :
    LET f == stack[m] IN
      /\ f.n \in 0 .. NUM_PASSES
      /\ f.pc \in {"az5", "az6", "en1", "en2", "en3", "en4", "en5", "pd", "pu"}
            => f.n = NUM_PASSES
      /\ \A ch \in Channels :
           LET q == f.got[ch]
               n == Len(q) - 1
               tare == chanData[f.inst][ch].tare
           IN /\ Len(q) \in {f.n, f.n + 1}
              /\ Len(q) <= NUM_PASSES
              /\ n = 0 => tare = q[1]
              /\ n > 0 => IsTruncQuot(tare, f.prev[ch] * (n - 1) + q[n + 1], n)

\* the third pass has averaged a tare of -201 and a reading of 100: -50
C21_Witness ==
  \E m \in TareFrames :
    LET f == stack[m] IN
      /\ f.pc = "az6"
      /\ Len(f.got[CH_B]) = NUM_PASSES
      /\ f.prev[CH_B] = -201
      /\ f.got[CH_B][NUM_PASSES] = 100
      /\ chanData[f.inst][CH_B].tare = -50

\* the interrupt frames that have just been entered
Entered == {n \in 1 .. Len(stack) : stack[n].ctx = "isr" /\ stack[n].pc = "nb1"}

\* C22: the handler of an instance is entered only for a HIGH to LOW
\* transition of its data pin made while the handler was attached, and a
\* successful attach has bound the interrupt of the pin to the trampoline of
\* the slot it has just allocated.
C22_FallingEdgeTrampoline ==
  /\ \A n \in Entered : dev[stack[n].inst].fell
  /\ (lastDone.op = "enableISR" /\ lastDone.result = TRUE) =>
       LET i == lastDone.inst IN
         /\ myISRId[i] \in Slots \ snap[1]
         /\ handler[digitalPinToInterrupt(pinDat[i])] = myISRId[i]

\* C23: an interrupt with a handler attached is the interrupt of the data
\* pin of the instance its trampoline's table entry names, and that instance
\* is attached with the trampoline's slot, which is marked used; so every
\* handler entered runs the read of an attached instance that owns the slot.
C23_DispatchConsistent ==
  /\ \A q \in IrqPins :
       handler[q] # NoHandler =>
         LET k == handler[q]
             i == myInstance[k]
         IN /\ k \in Slots
            /\ k \in ISRUsed
            /\ i \in Instances
            /\ myISRId[i] = k
            /\ digitalPinToInterrupt(pinDat[i]) = q
  /\ \A n \in Entered :
       LET i == stack[n].inst IN
         /\ isInterruptMode(myISRId[i])
         /\ myInstance[myISRId[i]] = i
         /\ handler[digitalPinToInterrupt(pinDat[i])] = myISRId[i]

\* the handler of slot 0 is entered for the second instance, which took the
\* slot over from the first, now attached with slot 1
C23_Witness ==
  /\ \E n \in Entered : stack[n].inst = 2
  /\ myISRId[2] = 0
  /\ myISRId[1] = 1
  /\ handler[digitalPinToInterrupt(pinDat[1])] = 1

\* C24: while reset() or an attach is between powerDown() and powerUp(), the
\* clock line of the instance is high and has been high without a pulse since
\* powerDown() raised it.
C24_PowerCycleHeld ==
  \A n \in 1 .. Len(stack) :
    (stack[n].pc = "pu" /\ stack[n].op \in {"reset", "enableISR"}) =>
      /\ clk[stack[n].inst] = 1
      /\ dev[stack[n].inst].hold

\* C25: readNB() is entered with interrupts masked when its trampoline calls
\* it and with interrupts enabled when read() calls it, and at its last
\* statement, about to return, the interrupt mask is as it was on entry.
C25_MaskPreserved ==
  \A n \in 1 .. Len(stack) :
    (n = Len(stack) /\ stack[n].pc \in {"nb1", "nb8"}) =>
      iflag = (stack[n].ctx # "isr")

====
